---- MODULE Spec2Model ----
(***************************************************************************)
(* Fence Flow Inventory Tracker: the REST handlers of backend/routes       *)
(* (orders, products, users, projects) over the SQLite tables created by   *)
(* backend/database/init.js.                                               *)
(*                                                                         *)
(* Every handler is an async function: a sequence of awaited database      *)
(* statements.  A handler is modelled as a process record p (its local     *)
(* variables and its position pc) and a step function that executes the    *)
(* next awaited statement against the database record db.  Run executes a  *)
(* handler to its response; the sequential specifications use Run, the     *)
(* concurrent ones interleave the single steps of several handlers.        *)
(***************************************************************************)
EXTENDS Integers, Sequences, FiniteSets, TLC

VARIABLES db, procs, last, nreq, ui

vars == <<db, procs, last, nreq, ui>>

(***************************************************************************)
(* Bounds of the model.                                                    *)
(***************************************************************************)
\* largest quantity a request names
MaxQty == 2
\* stock of every seeded product (the seed uses 15..100)
InitStock == 2
\* requests handled in a behaviour of the sequential inventory specification
MaxRequests == 2
\* requests handled in a behaviour of the deletion specification
MaxAdminRequests == 3
\* requests started in a behaviour of the catalogue specification
MaxSkuRequests == 3

(***************************************************************************)
(* The seeded database (seedInitialData), scaled down to two products.     *)
(***************************************************************************)
AdminId == 1
AgencyId == 2

\* the seeded prices of FENCE-001, CAM-001 and GATE-001
FencePrice == 250
CamPrice == 1200
GatePrice == 850

Categories == 1..6

OrderStatuses == {"pending", "approved", "processing", "shipped", "delivered", "cancelled"}

ProductStatuses == {"active", "inactive", "discontinued"}

SeedDb ==
  [ users    |-> (AdminId :> [role |-> "admin"]) @@ (AgencyId :> [role |-> "agency"]),
    user_seq |-> 2,
    projects |-> (1 :> [status |-> "in_progress", manager_id |-> AdminId])
              @@ (2 :> [status |-> "planning", manager_id |-> AdminId]),
    project_seq |-> 2,
    products |-> (1 :> [sku |-> "FENCE-001", category_id |-> 1, status |-> "active",
                        stock_quantity |-> InitStock, price |-> FencePrice])
              @@ (2 :> [sku |-> "CAM-001", category_id |-> 2, status |-> "active",
                        stock_quantity |-> InitStock, price |-> CamPrice]),
    product_seq |-> 2,
    orders   |-> <<>>,
    order_items |-> <<>>,
    inventory_transactions |-> <<>>,
    now      |-> 0 ]

(***************************************************************************)
(* Helpers.                                                                *)
(***************************************************************************)
RECURSIVE SumQty(_, _)
\* the sum of the quantities of the lines of items that name product pid
SumQty(items, pid) ==
  IF items = <<>> THEN 0
  ELSE (IF Head(items).product_id = pid THEN Head(items).quantity ELSE 0)
       + SumQty(Tail(items), pid)

\* res.status(code).json(...): the handler returns
Respond(p, code) == [p EXCEPT !.pc = "done", !.code = code]

Same(d, p) == [db |-> d, p |-> p]

Running(p) == p.pc \notin {"idle", "done"}

Idle == [op |-> "none", pc |-> "idle", code |-> 0]

(***************************************************************************)
(* SQL statements.                                                         *)
(***************************************************************************)
\* UPDATE products SET stock_quantity = ? WHERE id = ?  (no row: no effect)
SetStock(d, pid, n) ==
  IF pid \in DOMAIN d.products
    THEN [d EXCEPT !.products[pid].stock_quantity = n]
    ELSE d

\* INSERT INTO inventory_transactions (...)
InsertTransaction(d, pid, type, qty, refType, refId) ==
  [d EXCEPT !.inventory_transactions =
     Append(@, [product_id |-> pid, transaction_type |-> type, quantity |-> qty,
                reference_type |-> refType, reference_id |-> refId])]

\* an order_items row that stores the remaining stock as its quantity
InsertOrderItemNewStock(d, oid, item) ==
  [d EXCEPT !.order_items =
     Append(@, [order_id |-> oid, product_id |-> item.product_id,
                quantity |-> item.stock_quantity - item.quantity,
                unit_price |-> item.unit_price, total_price |-> item.total_price])]

\* INSERT INTO order_items (...)
InsertOrderItem(d, oid, item) ==
  [d EXCEPT !.order_items =
     Append(@, [order_id |-> oid, product_id |-> item.product_id,
                quantity |-> item.quantity,
                unit_price |-> item.unit_price, total_price |-> item.total_price])]

\* INSERT INTO orders (...): AUTOINCREMENT id, orders are never deleted;
\* created_at DEFAULT CURRENT_TIMESTAMP is the clock's second, d.now
InsertOrder(d, user, project, total) ==
  [d EXCEPT !.orders =
     Append(@, [user_id |-> user, project_id |-> project, status |-> "pending",
                total_amount |-> total, created_at |-> d.now])]

OrderIds(d) == DOMAIN d.orders

(***************************************************************************)
(* POST /orders (routes/orders.js, router.post('/')).                      *)
(***************************************************************************)
\* the quantity validator with min: 0
ValidOrderBodyMinZero(items) ==
  /\ Len(items) >= 1
  /\ \A k \in 1..Len(items) : items[k].quantity >= 0

\* the express-validator chain of the route: items is a non-empty array and
\* every quantity is an integer >= 1
ValidOrderBody(items) ==
  /\ Len(items) >= 1
  /\ \A k \in 1..Len(items) : items[k].quantity >= 1

\* SELECT ... FROM products WHERE id = ? AND status = "active" finds a row
ActiveProduct(d, pid) ==
  /\ pid \in DOMAIN d.products
  /\ d.products[pid].status = "active"

\* the stock check off by one
EnoughStockOffByOne(stock, quantity) == ~ (stock + 1 < quantity)

\* the stock check of the validation loop passes
EnoughStock(stock, quantity) == ~ (stock < quantity)

\* const newStock = item.product.stock_quantity - item.quantity
NewStock(vitem) == vitem.stock_quantity - vitem.quantity

\* UPDATE products SET stock_quantity = stock_quantity - ? (a relative decrement)
DecrementStockRelative(d, vitem) ==
  SetStock(d, vitem.product_id,
           IF vitem.product_id \in DOMAIN d.products
             THEN d.products[vitem.product_id].stock_quantity - vitem.quantity
             ELSE 0)

\* UPDATE products SET stock_quantity = ? with newStock: the stock read by the
\* validation loop minus the line's quantity
DecrementStock(d, vitem) == SetStock(d, vitem.product_id, NewStock(vitem))

\* an item total that forgets the quantity
ItemTotalOfOne(price, quantity) == price

\* const itemTotal = product.price * item.quantity
ItemTotal(price, quantity) == price * quantity

\* the handler's state when the route is entered
PostOrderStart(user, project, items) ==
  LET p == [op |-> "postOrder", pc |-> "validate", code |-> 0, user |-> user,
            project_id |-> project, items |-> items, i |-> 1,
            validatedItems |-> <<>>, totalAmount |-> 0, orderId |-> 0, j |-> 1]
  IN  IF ~ ValidOrderBody(items) THEN Respond(p, 400)
      ELSE IF project # 0 THEN [p EXCEPT !.pc = "project"]
      ELSE p

PostOrderStep(d, p) ==
  CASE p.pc = "project" ->
         IF p.project_id \in DOMAIN d.projects
           THEN Same(d, [p EXCEPT !.pc = "validate"])
           ELSE Same(d, Respond(p, 400))
    [] p.pc = "validate" ->
         LET item == p.items[p.i] IN
         IF ~ ActiveProduct(d, item.product_id) THEN Same(d, Respond(p, 400))
         ELSE IF ~ EnoughStock(d.products[item.product_id].stock_quantity, item.quantity)
           THEN Same(d, Respond(p, 400))
         ELSE Same(d, [p EXCEPT
                !.validatedItems = Append(@, [product_id |-> item.product_id,
                     quantity |-> item.quantity,
                     stock_quantity |-> d.products[item.product_id].stock_quantity,
                     unit_price |-> d.products[item.product_id].price,
                     total_price |-> ItemTotal(d.products[item.product_id].price,
                                               item.quantity)]),
                !.totalAmount = @ + ItemTotal(d.products[item.product_id].price,
                                              item.quantity),
                !.i = @ + 1,
                !.pc = IF p.i = Len(p.items) THEN "insertOrder" ELSE "validate"])
    [] p.pc = "insertOrder" ->
         LET d2 == InsertOrder(d, p.user, p.project_id, p.totalAmount) IN
         [db |-> d2, p |-> [p EXCEPT !.orderId = Len(d2.orders), !.pc = "insertItem"]]
    [] p.pc = "insertItem" ->
         [db |-> InsertOrderItem(d, p.orderId, p.validatedItems[p.j]),
          p |-> [p EXCEPT !.pc = "updateStock"]]
    [] p.pc = "updateStock" ->
         [db |-> DecrementStock(d, p.validatedItems[p.j]),
          p |-> [p EXCEPT !.pc = "insertTx"]]
    [] p.pc = "insertTx" ->
         [db |-> InsertTransaction(d, p.validatedItems[p.j].product_id, "out",
                                   p.validatedItems[p.j].quantity, "order", p.orderId),
          p |-> IF p.j = Len(p.validatedItems) THEN Respond(p, 201)
                ELSE [p EXCEPT !.j = @ + 1, !.pc = "insertItem"]]

\* a JSON value of a request body: the integer n, or a value that is no integer
\* (a string such as "abc", a fraction, null or a missing key)
JsonInt(n) == [int |-> TRUE, n |-> n]

NotAnInt == [int |-> FALSE, n |-> 0]

\* the lines of a JSON body whose product_id and quantity are integers
ItemsOf(body) ==
  [k \in 1..Len(body.items) |->
     [product_id |-> body.items[k].product_id.n, quantity |-> body.items[k].quantity.n]]

\* body('items').isArray({ min: 1 }), body('items.*.product_id').isInt() and
\* body('items.*.quantity').isInt({ min: 1 }) report no error
ValidOrderRequest(body) ==
  /\ body.items_type = "array"
  /\ \A k \in 1..Len(body.items) :
       body.items[k].product_id.int /\ body.items[k].quantity.int
  /\ ValidOrderBody(ItemsOf(body))

\* the route entered with a JSON body: errors is the errors list of the 400
\* that validationResult(req) produces
PostOrderRequest(user, project, body) ==
  LET ok == ValidOrderRequest(body) IN
  [body |-> body, errors |-> ~ ok]
  @@ PostOrderStart(user, project, IF ok THEN ItemsOf(body) ELSE <<>>)

(***************************************************************************)
(* PATCH /orders/:id/status (routes/orders.js).                            *)
(***************************************************************************)
\* the inventory restored by every update to cancelled
RestoresInventoryAlways(status, orderStatus) == status = "cancelled"

\* the inventory restored by every update that leaves a non-cancelled status
RestoresInventoryOnChange(status, orderStatus) ==
  status # orderStatus /\ orderStatus # "cancelled"

\* if (status === 'cancelled' && order.status !== 'cancelled')
RestoresInventory(status, orderStatus) ==
  status = "cancelled" /\ orderStatus # "cancelled"

\* SELECT product_id, quantity FROM order_items WHERE order_id = ?
SelectOrderItems(d, oid) ==
  SelectSeq(d.order_items, LAMBDA r : r.order_id = oid)

\* const newStock = product.stock_quantity + item.quantity
RestoredStock(stock, quantity) == stock + quantity

PatchStatusStart(oid, status) ==
  [op |-> "patchStatus", pc |-> "getOrder", code |-> 0, id |-> oid,
   status |-> status, orderStatus |-> "pending", orderItems |-> <<>>, j |-> 1,
   newStock |-> 0]

PatchStatusStep(d, p) ==
  CASE p.pc = "getOrder" ->
         IF p.id \notin OrderIds(d) THEN Same(d, Respond(p, 404))
         ELSE Same(d, [p EXCEPT !.orderStatus = d.orders[p.id].status,
                                !.pc = "updateOrder"])
    [] p.pc = "updateOrder" ->
         [db |-> [d EXCEPT !.orders[p.id].status = p.status],
          p |-> IF RestoresInventory(p.status, p.orderStatus)
                  THEN [p EXCEPT !.pc = "selectItems"]
                  ELSE Respond(p, 200)]
    [] p.pc = "selectItems" ->
         LET rows == SelectOrderItems(d, p.id) IN
         Same(d, IF rows = <<>> THEN Respond(p, 200)
                 ELSE [p EXCEPT !.orderItems = rows, !.j = 1, !.pc = "getProduct"])
    [] p.pc = "getProduct" ->
         LET item == p.orderItems[p.j] IN
         \* product is undefined for a missing row: product.stock_quantity throws
         IF item.product_id \notin DOMAIN d.products THEN Same(d, Respond(p, 500))
         ELSE Same(d, [p EXCEPT
                !.newStock = RestoredStock(d.products[item.product_id].stock_quantity,
                                           item.quantity),
                !.pc = "updateStock"])
    [] p.pc = "updateStock" ->
         [db |-> SetStock(d, p.orderItems[p.j].product_id, p.newStock),
          p |-> [p EXCEPT !.pc = "insertTx"]]
    [] p.pc = "insertTx" ->
         [db |-> InsertTransaction(d, p.orderItems[p.j].product_id, "in",
                                   p.orderItems[p.j].quantity, "order", p.id),
          p |-> IF p.j = Len(p.orderItems) THEN Respond(p, 200)
                ELSE [p EXCEPT !.j = @ + 1, !.pc = "getProduct"]]

(***************************************************************************)
(* PATCH /products/:id/stock (routes/products.js).                         *)
(***************************************************************************)
RECURSIVE Shift(_)
\* 10 to the number of decimal digits of n >= 0
Shift(n) == IF n < 10 THEN 10 ELSE 10 * Shift(n \div 10)

\* stock + "quantity" in JavaScript: the digits of stock followed by those of
\* the string, which the INTEGER column stores as that integer
Concat(stock, quantity) ==
  IF stock >= 0 THEN stock * Shift(quantity) + quantity
  ELSE stock * Shift(quantity) - quantity

\* let newQuantity = ...: the quantity the three transaction types compute.
\* quoted: req.body.quantity is a string of digits (a JSON string or a field of
\* a urlencoded body), which isInt() accepts and the handler does not convert
NewQuantity(stock, quantity, type, quoted) ==
  CASE type = "in" -> IF quoted THEN Concat(stock, quantity) ELSE stock + quantity
    [] type = "out" -> stock - quantity
    [] type = "adjustment" -> quantity

\* if (newQuantity < 0) return 400: only the 'out' branch checks
StockRejected(newQuantity, type) == type = "out" /\ newQuantity < 0

\* the route entered with a JSON number as quantity
PatchStockStart(pid, quantity, type) ==
  [op |-> "patchStock", pc |-> "getProduct", code |-> 0, id |-> pid,
   quantity |-> quantity, type |-> type, newQuantity |-> 0, quoted |-> FALSE]

\* the route entered with a string of digits as quantity
PatchStockText(pid, quantity, type) ==
  [PatchStockStart(pid, quantity, type) EXCEPT !.quoted = TRUE]

PatchStockStep(d, p) ==
  CASE p.pc = "getProduct" ->
         IF p.id \notin DOMAIN d.products THEN Same(d, Respond(p, 404))
         ELSE LET n == NewQuantity(d.products[p.id].stock_quantity, p.quantity, p.type,
                                        p.quoted) IN
              IF StockRejected(n, p.type) THEN Same(d, Respond(p, 400))
              ELSE Same(d, [p EXCEPT !.newQuantity = n, !.pc = "updateStock"])
    [] p.pc = "updateStock" ->
         [db |-> SetStock(d, p.id, p.newQuantity), p |-> [p EXCEPT !.pc = "insertTx"]]
    [] p.pc = "insertTx" ->
         [db |-> InsertTransaction(d, p.id, p.type, p.quantity, "manual", 0),
          p |-> Respond(p, 200)]

(***************************************************************************)
(* POST /products, PUT /products/:id, DELETE /products/:id.                *)
(***************************************************************************)
\* a products table whose sku column carries no UNIQUE constraint
NoUniqueConstraint(d, pid, sku) == FALSE

\* a NULL in the sku column (the column is not declared NOT NULL)
NullSku == "<null>"

\* sku TEXT UNIQUE (createTables): the statement fails when another row holds
\* sku; SQLite's UNIQUE never treats two NULLs as equal
UniqueSkuViolated(d, pid, sku) ==
  /\ sku # NullSku
  /\ \E q \in DOMAIN d.products \ {pid} : d.products[q].sku = sku

\* SELECT id FROM products WHERE sku = ? finds a row
SkuExists(d, sku) ==
  /\ sku # NullSku
  /\ \E q \in DOMAIN d.products : d.products[q].sku = sku

\* the columns the UPDATE of a PUT sets: every key of the body (body.keys are
\* the keys the JSON body holds, the other fields of the record are unused)
UpdatedRow(row, body) ==
  [f \in DOMAIN row |-> IF f \in body.keys THEN body[f] ELSE row[f]]

\* the body's price is that of the seeded GATE-001
PostProductStart(sku, category, stock) ==
  [op |-> "postProduct", pc |-> "checkSku", code |-> 0, sku |-> sku,
   category_id |-> category, stock_quantity |-> stock, status |-> "active",
   price |-> GatePrice]

PostProductStep(d, p) ==
  CASE p.pc = "checkSku" ->
         IF SkuExists(d, p.sku) THEN Same(d, Respond(p, 400))
         ELSE Same(d, [p EXCEPT !.pc = "category"])
    [] p.pc = "category" ->
         IF p.category_id \notin Categories THEN Same(d, Respond(p, 400))
         ELSE Same(d, [p EXCEPT !.pc = "insert"])
    [] p.pc = "insert" ->
         IF UniqueSkuViolated(d, 0, p.sku) THEN Same(d, Respond(p, 500))
         ELSE [db |-> [d EXCEPT
                  !.products = @ @@ ((d.product_seq + 1) :>
                      [sku |-> p.sku, category_id |-> p.category_id,
                       status |-> p.status, stock_quantity |-> p.stock_quantity,
                       price |-> p.price]),
                  !.product_seq = @ + 1],
               p |-> Respond(p, 201)]

PutProductStart(pid, body) ==
  [op |-> "putProduct", pc |-> "getProduct", code |-> 0, id |-> pid, body |-> body]

\* after the checks: if (updateFields.length === 0) return 400
PutProductFields(p) ==
  IF p.body.keys = {} THEN Respond(p, 400) ELSE [p EXCEPT !.pc = "update"]

PutProductStep(d, p) ==
  CASE p.pc = "getProduct" ->
         IF p.id \notin DOMAIN d.products THEN Same(d, Respond(p, 404))
         ELSE IF "category_id" \in p.body.keys
           THEN Same(d, [p EXCEPT !.pc = "category"])
         ELSE Same(d, PutProductFields(p))
    [] p.pc = "category" ->
         IF p.body.category_id \notin Categories THEN Same(d, Respond(p, 400))
         ELSE Same(d, PutProductFields(p))
    [] p.pc = "update" ->
         IF p.id \notin DOMAIN d.products THEN Same(d, Respond(p, 200))
         ELSE IF "sku" \in p.body.keys /\ UniqueSkuViolated(d, p.id, p.body.sku)
           THEN Same(d, Respond(p, 500))
         ELSE [db |-> [d EXCEPT !.products[p.id] = UpdatedRow(@, p.body)],
               p |-> Respond(p, 200)]

\* the reference check on the wrong column of order_items
ProductOrderedWrongColumn(d, pid) ==
  \E k \in 1..Len(d.order_items) : d.order_items[k].order_id = pid

\* SELECT id FROM order_items WHERE product_id = ? LIMIT 1 finds a row
ProductOrdered(d, pid) ==
  \E k \in 1..Len(d.order_items) : d.order_items[k].product_id = pid

DeleteProductStart(pid) ==
  [op |-> "deleteProduct", pc |-> "getProduct", code |-> 0, id |-> pid]

DeleteProductStep(d, p) ==
  CASE p.pc = "getProduct" ->
         IF p.id \notin DOMAIN d.products THEN Same(d, Respond(p, 404))
         ELSE Same(d, [p EXCEPT !.pc = "checkItems"])
    [] p.pc = "checkItems" ->
         IF ProductOrdered(d, p.id) THEN Same(d, Respond(p, 400))
         ELSE Same(d, [p EXCEPT !.pc = "delete"])
    [] p.pc = "delete" ->
         [db |-> [d EXCEPT !.products = [q \in DOMAIN @ \ {p.id} |-> @[q]]],
          p |-> Respond(p, 200)]

(***************************************************************************)
(* POST /projects and PUT /projects/:id (routes/projects.js).              *)
(***************************************************************************)
ProjectStatuses == {"planning", "in_progress", "completed", "on_hold"}

\* manager 0 stands for a body without manager_id
PostProjectStart(status, manager) ==
  [op |-> "postProject", pc |-> IF manager # 0 THEN "manager" ELSE "insert",
   code |-> 0, status |-> status, manager_id |-> manager]

PostProjectStep(d, p) ==
  CASE p.pc = "manager" ->
         IF p.manager_id \notin DOMAIN d.users THEN Same(d, Respond(p, 400))
         ELSE Same(d, [p EXCEPT !.pc = "insert"])
    [] p.pc = "insert" ->
         [db |-> [d EXCEPT
            !.projects = @ @@ ((d.project_seq + 1) :>
                [status |-> p.status, manager_id |-> p.manager_id]),
            !.project_seq = @ + 1],
          p |-> Respond(p, 201)]

PutProjectStart(pj, body) ==
  [op |-> "putProject", pc |-> "getProject", code |-> 0, id |-> pj, body |-> body]

\* after the checks: if (updateFields.length === 0) return 400
PutProjectFields(p) ==
  IF p.body.keys = {} THEN Respond(p, 400) ELSE [p EXCEPT !.pc = "update"]

PutProjectStep(d, p) ==
  CASE p.pc = "getProject" ->
         IF p.id \notin DOMAIN d.projects THEN Same(d, Respond(p, 404))
         ELSE IF "manager_id" \in p.body.keys /\ p.body.manager_id # 0
           THEN Same(d, [p EXCEPT !.pc = "manager"])
         ELSE Same(d, PutProjectFields(p))
    [] p.pc = "manager" ->
         IF p.body.manager_id \notin DOMAIN d.users THEN Same(d, Respond(p, 400))
         ELSE Same(d, PutProjectFields(p))
    [] p.pc = "update" ->
         [db |-> IF p.id \in DOMAIN d.projects
                   THEN [d EXCEPT !.projects[p.id] = UpdatedRow(@, p.body)]
                   ELSE d,
          p |-> Respond(p, 200)]

(***************************************************************************)
(* DELETE /projects/:id (routes/projects.js).                              *)
(***************************************************************************)
\* SELECT id FROM orders WHERE project_id = ? LIMIT 1 finds a row
ProjectHasOrders(d, pj) == \E o \in OrderIds(d) : d.orders[o].project_id = pj

DeleteProjectStart(pj) ==
  [op |-> "deleteProject", pc |-> "getProject", code |-> 0, id |-> pj]

DeleteProjectStep(d, p) ==
  CASE p.pc = "getProject" ->
         IF p.id \notin DOMAIN d.projects THEN Same(d, Respond(p, 404))
         ELSE Same(d, [p EXCEPT !.pc = "checkOrders"])
    [] p.pc = "checkOrders" ->
         IF ProjectHasOrders(d, p.id) THEN Same(d, Respond(p, 400))
         ELSE Same(d, [p EXCEPT !.pc = "delete"])
    [] p.pc = "delete" ->
         [db |-> [d EXCEPT !.projects = [q \in DOMAIN @ \ {p.id} |-> @[q]]],
          p |-> Respond(p, 200)]

(***************************************************************************)
(* PUT /users/:id, DELETE /users/:id (routes/users.js).                    *)
(***************************************************************************)
\* SELECT COUNT(*) as count FROM users WHERE role = "admin"
AdminCount(d) == Cardinality({u \in DOMAIN d.users : d.users[u].role = "admin"})

\* the last-admin check off by one
LastAdminOffByOne(count) == count <= 0

\* if (adminCount.count <= 1) return 400
LastAdmin(count) == count <= 1

\* SELECT id FROM orders WHERE user_id = ? LIMIT 1 finds a row
UserHasOrders(d, u) == \E o \in OrderIds(d) : d.orders[o].user_id = u

DeleteUserStart(u) ==
  [op |-> "deleteUser", pc |-> "getUser", code |-> 0, id |-> u, role |-> "agency"]

DeleteUserStep(d, p) ==
  CASE p.pc = "getUser" ->
         IF p.id \notin DOMAIN d.users THEN Same(d, Respond(p, 404))
         ELSE Same(d, [p EXCEPT !.role = d.users[p.id].role,
                         !.pc = IF d.users[p.id].role = "admin" THEN "countAdmins"
                                ELSE "checkOrders"])
    [] p.pc = "countAdmins" ->
         IF LastAdmin(AdminCount(d)) THEN Same(d, Respond(p, 400))
         ELSE Same(d, [p EXCEPT !.pc = "checkOrders"])
    [] p.pc = "checkOrders" ->
         IF UserHasOrders(d, p.id) THEN Same(d, Respond(p, 400))
         ELSE Same(d, [p EXCEPT !.pc = "delete"])
    [] p.pc = "delete" ->
         [db |-> [d EXCEPT !.users = [u \in DOMAIN @ \ {p.id} |-> @[u]]],
          p |-> Respond(p, 200)]

PutUserStart(u, body) ==
  [op |-> "putUser", pc |-> "getUser", code |-> 0, id |-> u, body |-> body]

PutUserStep(d, p) ==
  CASE p.pc = "getUser" ->
         IF p.id \notin DOMAIN d.users THEN Same(d, Respond(p, 404))
         ELSE IF p.body.keys = {} THEN Same(d, Respond(p, 400))
         ELSE Same(d, [p EXCEPT !.pc = "update"])
    [] p.pc = "update" ->
         [db |-> IF p.id \in DOMAIN d.users
                   THEN [d EXCEPT !.users[p.id] = UpdatedRow(@, p.body)]
                   ELSE d,
          p |-> Respond(p, 200)]

(***************************************************************************)
(* The role middleware of middleware/auth.js and the routes it guards.     *)
(***************************************************************************)
\* requireAdmin lets a request pass when its user has role admin
requireAdmin(role) == role = "admin"

\* requireAnyRole lets a request pass for either role
requireAnyRole(role) == role \in {"admin", "agency"}

\* PATCH /products/:id/stock declared with requireAnyRole
RouteGuardOpenStock(op) ==
  IF op \in {"postOrder", "getOrders", "getOrder", "getOrderStats", "getProject",
             "patchStock"}
    THEN "requireAnyRole" ELSE "requireAdmin"

\* the middleware each route is declared with
RouteGuard(op) ==
  IF op \in {"postOrder", "getOrders", "getOrder", "getOrderStats", "getProject"}
    THEN "requireAnyRole" ELSE "requireAdmin"

Admitted(op, role) ==
  IF RouteGuard(op) = "requireAdmin" THEN requireAdmin(role) ELSE requireAnyRole(role)

\* the request p0 made by user u, whose role is role: the handler is entered
\* only when the route's middleware lets the request pass
Request(u, role, p0) ==
  [requester |-> u, requester_role |-> role]
  @@ (IF Admitted(p0.op, role) THEN p0 ELSE Respond(p0, 403))

(***************************************************************************)
(* GET /orders, GET /orders/:id, GET /orders/stats/overview                *)
(* (routes/orders.js) and GET /projects/:id (routes/projects.js).          *)
(***************************************************************************)
\* page = 1, limit = 20 when the query names none
DefaultPage == 1

DefaultLimit == 20

\* a query string without parameters: 0 and "" stand for an absent parameter
NoQuery == [status |-> "", user_id |-> 0, project_id |-> 0, page |-> 0, limit |-> 0]

PageOf(query) == IF query.page = 0 THEN DefaultPage ELSE query.page

LimitOf(query) == IF query.limit = 0 THEN DefaultLimit ELSE query.limit

\* the WHERE clause GET /orders builds for row oid
WhereOrders(d, oid, user, role, query) ==
  /\ role = "agency" => d.orders[oid].user_id = user
  /\ query.status # "" => d.orders[oid].status = query.status
  /\ (query.user_id # 0 /\ role = "admin") => d.orders[oid].user_id = query.user_id
  /\ query.project_id # 0 => d.orders[oid].project_id = query.project_id

RECURSIVE OrderByCreatedAtDesc(_, _)
\* ORDER BY o.created_at DESC over the rows ids: rows of one second come in
\* the order of the table scan, by id
OrderByCreatedAtDesc(d, ids) ==
  IF ids = {} THEN <<>>
  ELSE LET first == CHOOSE i \in ids : \A j \in ids :
                      \/ d.orders[i].created_at > d.orders[j].created_at
                      \/ d.orders[i].created_at = d.orders[j].created_at /\ i <= j
       IN  <<first>> \o OrderByCreatedAtDesc(d, ids \ {first})

\* LIMIT ? OFFSET ? over the sorted rows
LimitOffset(rows, limit, offset) ==
  SubSeq(rows, offset + 1, IF offset + limit < Len(rows) THEN offset + limit ELSE Len(rows))

\* const offset = page * limit
OffsetFromZero(page, limit) == page * limit

\* const offset = (page - 1) * limit
Offset(page, limit) == (page - 1) * limit

\* Math.ceil(countResult.total / limit)
Pages(total, limit) == (total + limit - 1) \div limit

GetOrdersStart(user, role, query) ==
  [op |-> "getOrders", pc |-> "count", code |-> 0, user |-> user, role |-> role,
   query |-> query, total |-> 0, shown |-> <<>>, pages |-> 0]

GetOrdersStep(d, p) ==
  LET ids == {oid \in OrderIds(d) : WhereOrders(d, oid, p.user, p.role, p.query)} IN
  CASE p.pc = "count" ->
         Same(d, [p EXCEPT !.total = Cardinality(ids), !.pc = "select"])
    [] p.pc = "select" ->
         Same(d, Respond([p EXCEPT
                !.shown = LimitOffset(OrderByCreatedAtDesc(d, ids), LimitOf(p.query),
                                      Offset(PageOf(p.query), LimitOf(p.query))),
                !.pages = Pages(p.total, LimitOf(p.query))], 200))

GetOrderStart(user, role, oid) ==
  [op |-> "getOrder", pc |-> "getOrder", code |-> 0, user |-> user, role |-> role,
   id |-> oid, shown |-> <<>>]

GetOrderStep(d, p) ==
  CASE p.pc = "getOrder" ->
         IF p.id \notin OrderIds(d) THEN Same(d, Respond(p, 404))
         ELSE IF p.role = "agency" /\ d.orders[p.id].user_id # p.user
           THEN Same(d, Respond(p, 403))
         ELSE Same(d, [p EXCEPT !.pc = "getItems"])
    [] p.pc = "getItems" ->
         Same(d, Respond([p EXCEPT !.shown = <<p.id>>], 200))

GetOrderStatsStart(user, role) ==
  [op |-> "getOrderStats", pc |-> "stats", code |-> 0, user |-> user, role |-> role,
   shown |-> <<>>]

\* the rows COUNT(*) and the SUMs of the statistics run over
GetOrderStatsStep(d, p) ==
  LET ids == {oid \in OrderIds(d) : p.role = "agency" => d.orders[oid].user_id = p.user} IN
  Same(d, Respond([p EXCEPT !.shown = OrderByCreatedAtDesc(d, ids)], 200))

GetProjectStart(user, role, pj) ==
  [op |-> "getProject", pc |-> "getProject", code |-> 0, user |-> user, role |-> role,
   id |-> pj, shown |-> <<>>]

GetProjectStep(d, p) ==
  CASE p.pc = "getProject" ->
         IF p.id \notin DOMAIN d.projects THEN Same(d, Respond(p, 404))
         ELSE Same(d, [p EXCEPT !.pc = "getOrders"])
    [] p.pc = "getOrders" ->
         LET ids == {oid \in OrderIds(d) : d.orders[oid].project_id = p.id} IN
         Same(d, Respond([p EXCEPT !.shown = OrderByCreatedAtDesc(d, ids)], 200))

(***************************************************************************)
(* The single-page frontend: the page's user state (pages/Index.tsx), the  *)
(* token of AuthContext and of localStorage, and the handlers that are     *)
(* waiting for a response.  A handler is a closure of the render that      *)
(* created it: its apiFetch holds the token that render read from          *)
(* AuthContext.                                                            *)
(***************************************************************************)
\* the null token
NoToken == 0

\* the page after loading, nobody logged in.  pending are the handlers that
\* wait for a response; loggedOut says that handleLogout ran and no login
\* succeeded since; sentWithToken says that since then a request went out
\* through apiFetch with an Authorization header
PageLoaded ==
  [user |-> "none", token |-> NoToken, stored |-> NoToken, logins |-> 0,
   pending |-> <<>>, loggedOut |-> FALSE, sentWithToken |-> FALSE]

\* if (token) headers["Authorization"] = `Bearer ${token}`: the header's token
Authorization(token) == token

\* apiFetch of a render that read token from AuthContext sends a request
ApiFetch(u, token) ==
  [u EXCEPT !.sentWithToken = @ \/ (u.loggedOut /\ Authorization(token) # NoToken)]

\* a handler that re-reads the token from AuthContext after every await
ContinueWithCurrentToken(u, k) ==
  [ApiFetch(u, u.token) EXCEPT !.pending[k].kind = "fetch"]

\* after the awaited response of a managing request: fetchProducts() of the
\* same closure sends the next request
ContinueWithFetch(u, k) ==
  [ApiFetch(u, u.pending[k].token) EXCEPT !.pending[k].kind = "fetch"]

\* the pending handlers without the k-th
Settled(pending, k) == SubSeq(pending, 1, k - 1) \o SubSeq(pending, k + 1, Len(pending))

(***************************************************************************)
(* Dispatch and run to completion.                                         *)
(***************************************************************************)
Step(d, p) ==
  CASE p.op = "postOrder" -> PostOrderStep(d, p)
    [] p.op = "patchStatus" -> PatchStatusStep(d, p)
    [] p.op = "patchStock" -> PatchStockStep(d, p)
    [] p.op = "postProduct" -> PostProductStep(d, p)
    [] p.op = "putProduct" -> PutProductStep(d, p)
    [] p.op = "deleteProduct" -> DeleteProductStep(d, p)
    [] p.op = "postProject" -> PostProjectStep(d, p)
    [] p.op = "putProject" -> PutProjectStep(d, p)
    [] p.op = "deleteProject" -> DeleteProjectStep(d, p)
    [] p.op = "deleteUser" -> DeleteUserStep(d, p)
    [] p.op = "putUser" -> PutUserStep(d, p)
    [] p.op = "getOrders" -> GetOrdersStep(d, p)
    [] p.op = "getOrder" -> GetOrderStep(d, p)
    [] p.op = "getOrderStats" -> GetOrderStatsStep(d, p)
    [] p.op = "getProject" -> GetProjectStep(d, p)

RECURSIVE Run(_, _)
\* the handler executed alone: every statement up to the response
Run(d, p) ==
  IF p.pc = "done" THEN Same(d, p)
  ELSE LET s == Step(d, p) IN Run(s.db, s.p)

(***************************************************************************)
(* Request inputs.                                                         *)
(***************************************************************************)
\* product ids a request may name: the seeded ones and one that does not exist
ProductIdInputs == {1, 2, 3}

Lines(ids) == [product_id : ids, quantity : 1..MaxQty]

\* item lists of zero, one or two lines
ItemLists(ids) ==
  {<<>>} \cup {<<a>> : a \in Lines(ids)} \cup {<<a, b>> : a, b \in Lines(ids)}

\* an existing order id, or the next one, which does not exist yet
OrderIdInputs == 1..(Len(db.orders) + 1)

\* quantities of a manual stock update: isInt() accepts any integer
StockQtyInputs == (0 - 1)..MaxQty

StockTypes == {"in", "out", "adjustment"}

Skus == {"FENCE-001", "CAM-001", "GATE-001"}

NoBody ==
  [keys |-> {}, sku |-> "", status |-> "", stock_quantity |-> 0, category_id |-> 0,
   price |-> 0]

\* JSON bodies of PUT /products/:id: no key, or one key
ProductBodies ==
  {NoBody}
  \cup {[NoBody EXCEPT !.keys = {"status"}, !.status = s] : s \in ProductStatuses}
  \cup {[NoBody EXCEPT !.keys = {"stock_quantity"}, !.stock_quantity = n] : n \in StockQtyInputs}
  \cup {[NoBody EXCEPT !.keys = {"sku"}, !.sku = s] : s \in Skus}
  \cup {[NoBody EXCEPT !.keys = {"category_id"}, !.category_id = c] : c \in {2, 7}}

(***************************************************************************)
(* Sequential specification of the inventory: one request at a time.       *)
(***************************************************************************)
Init ==
  /\ db = SeedDb
  /\ procs = [s \in {1, 2} |-> Idle]
  /\ last = [req |-> Idle, res |-> Idle, pre |-> SeedDb]
  /\ nreq = 0
  /\ ui = PageLoaded

\* a request handled alone, from its first statement to its response
Handle(p0) ==
  LET r == Run(db, p0) IN
  /\ db' = r.db
  /\ last' = [req |-> p0, res |-> r.p, pre |-> db]
  /\ nreq' = nreq + 1
  /\ UNCHANGED <<procs, ui>>

CreateOrder ==
  /\ nreq < MaxRequests
  /\ \E items \in ItemLists(ProductIdInputs) : Handle(PostOrderStart(AgencyId, 0, items))

UpdateOrderStatus ==
  /\ nreq < MaxRequests
  /\ \E oid \in OrderIdInputs, status \in OrderStatuses :
       Handle(PatchStatusStart(oid, status))

UpdateStock ==
  /\ nreq < MaxRequests
  /\ \E pid \in ProductIdInputs, q \in StockQtyInputs, type \in StockTypes :
       Handle(PatchStockStart(pid, q, type))

UpdateProduct ==
  /\ nreq < MaxRequests
  /\ \E pid \in ProductIdInputs, body \in ProductBodies :
       Handle(PutProductStart(pid, body))

Next ==
  \/ CreateOrder
  \/ UpdateOrderStatus
  \/ UpdateStock
  \/ UpdateProduct

Spec == Init /\ [][Next]_vars

(***************************************************************************)
(* Concurrent specification of order creation: two POST /orders requests   *)
(* whose awaited statements interleave on the one database handle.         *)
(***************************************************************************)
Slots == {1, 2}

\* the handler in slot s executes its next awaited statement
StepSlot(s) ==
  /\ Running(procs[s])
  /\ LET r == Step(db, procs[s]) IN
       /\ db' = r.db
       /\ procs' = [procs EXCEPT ![s] = r.p]
  /\ UNCHANGED <<last, nreq, ui>>

\* the awaited statement rejects: the catch block answers 500, nothing is undone
FailSlot(s) ==
  /\ Running(procs[s])
  /\ procs' = [procs EXCEPT ![s] = Respond(@, 500)]
  /\ UNCHANGED <<db, last, nreq, ui>>

StartOrder(s) ==
  /\ procs[s].pc = "idle"
  /\ \E items \in ItemLists({1, 2}) \ {<<>>} :
       procs' = [procs EXCEPT ![s] = PostOrderStart(AgencyId, 0, items)]
  /\ UNCHANGED <<db, last, nreq, ui>>

NextConc ==
  \E s \in Slots :
    \/ StartOrder(s)
    \/ StepSlot(s)
    \/ FailSlot(s)

SpecConc == Init /\ [][NextConc]_vars

(***************************************************************************)
(* Catalogue specifications: POST /products and PUT /products/:id, handled *)
(* one at a time (SpecCatalog) or with interleaved statements (SpecSku).   *)
(***************************************************************************)
\* category ids a request may name: a seeded one and one that does not exist
CategoryInputs == {1, 7}

\* JSON bodies of PUT /products/:id that carry an sku: a string or null (the
\* route validates no sku field)
SkuBodies == {[NoBody EXCEPT !.keys = {"sku"}, !.sku = s] : s \in Skus \cup {NullSku}}

CreateProduct ==
  /\ nreq < MaxSkuRequests
  /\ \E sku \in Skus, c \in CategoryInputs : Handle(PostProductStart(sku, c, 0))

UpdateProductSku ==
  /\ nreq < MaxSkuRequests
  /\ \E pid \in ProductIdInputs, body \in SkuBodies : Handle(PutProductStart(pid, body))

NextCatalog ==
  \/ CreateProduct
  \/ UpdateProductSku

SpecCatalog == Init /\ [][NextCatalog]_vars

\* slot s is free for the next request
Free(s) == procs[s].pc \in {"idle", "done"}

StartPostProduct(s) ==
  /\ Free(s)
  /\ nreq < MaxSkuRequests
  /\ \E sku \in Skus, c \in CategoryInputs :
       procs' = [procs EXCEPT ![s] = PostProductStart(sku, c, 0)]
  /\ nreq' = nreq + 1
  /\ UNCHANGED <<db, last, ui>>

StartPutProduct(s) ==
  /\ Free(s)
  /\ nreq < MaxSkuRequests
  /\ \E pid \in ProductIdInputs, body \in SkuBodies :
       procs' = [procs EXCEPT ![s] = PutProductStart(pid, body)]
  /\ nreq' = nreq + 1
  /\ UNCHANGED <<db, last, ui>>

NextSku ==
  \E s \in Slots :
    \/ StartPostProduct(s)
    \/ StartPutProduct(s)
    \/ StepSlot(s)

SpecSku == Init /\ [][NextSku]_vars

(***************************************************************************)
(* Deletion specification: orders are placed, then products, projects and  *)
(* users are deleted and user roles changed, one request at a time.        *)
(***************************************************************************)
ProjectIdInputs == {1, 2, 3}

UserIdInputs == {1, 2, 3}

UserBodies == {[keys |-> {}, role |-> ""]} \cup {[keys |-> {"role"}, role |-> r] : r \in {"admin", "agency"}}

PlaceOrder ==
  /\ nreq < MaxAdminRequests
  /\ \E u \in DOMAIN db.users, pj \in {0, 1, 2}, pid \in {1, 2} :
       Handle(PostOrderStart(u, pj, <<[product_id |-> pid, quantity |-> 1]>>))

DeleteProduct ==
  /\ nreq < MaxAdminRequests
  /\ \E pid \in ProductIdInputs : Handle(DeleteProductStart(pid))

DeleteProject ==
  /\ nreq < MaxAdminRequests
  /\ \E pj \in ProjectIdInputs : Handle(DeleteProjectStart(pj))

DeleteUser ==
  /\ nreq < MaxAdminRequests
  /\ \E u \in UserIdInputs : Handle(DeleteUserStart(u))

UpdateUser ==
  /\ nreq < MaxAdminRequests
  /\ \E u \in UserIdInputs, body \in UserBodies : Handle(PutUserStart(u, body))

NextDelete ==
  \/ PlaceOrder
  \/ DeleteProduct
  \/ DeleteProject
  \/ DeleteUser
  \/ UpdateUser

SpecDelete == Init /\ [][NextDelete]_vars

(***************************************************************************)
(* Validation specification: POST /orders with well-formed and malformed   *)
(* JSON bodies, one request at a time.                                     *)
(***************************************************************************)
\* values of a line's product_id: a seeded product, or no integer
ProductIdValues == {JsonInt(1), NotAnInt}

\* values of a line's quantity: 0, a positive integer, or no integer
QuantityValues == {JsonInt(n) : n \in 0..MaxQty} \cup {NotAnInt}

RawLines == [product_id : ProductIdValues, quantity : QuantityValues]

\* JSON bodies: items an array of zero, one or two lines, a string, or missing
OrderBodies ==
  {[items_type |-> "array", items |-> l] :
     l \in {<<>>} \cup {<<a>> : a \in RawLines} \cup {<<a, b>> : a, b \in RawLines}}
  \cup {[items_type |-> t, items |-> <<>>] : t \in {"string", "undefined"}}

SubmitOrder ==
  /\ nreq < MaxRequests
  /\ \E body \in OrderBodies : Handle(PostOrderRequest(AgencyId, 0, body))

NextValidate == SubmitOrder

SpecValidate == Init /\ [][NextValidate]_vars

(***************************************************************************)
(* View specification: users of both roles place orders and read orders,   *)
(* order statistics and projects, one request at a time.                   *)
(***************************************************************************)
\* requests handled in a behaviour of the view and role specifications
MaxViewRequests == 3

\* query strings of GET /orders that name no page and no limit
ViewQueries ==
  {[NoQuery EXCEPT !.status = s, !.user_id = u, !.project_id = pj] :
     s \in {"", "pending"}, u \in {0, AdminId, AgencyId}, pj \in {0, 1}}

RoleOf(u) == db.users[u].role

OrderAs ==
  /\ nreq < MaxViewRequests
  /\ \E u \in DOMAIN db.users, pj \in {0, 1} :
       Handle(Request(u, RoleOf(u),
                      PostOrderStart(u, pj, <<[product_id |-> 1, quantity |-> 1]>>)))

ListOrders ==
  /\ nreq < MaxViewRequests
  /\ \E u \in DOMAIN db.users, query \in ViewQueries :
       Handle(Request(u, RoleOf(u), GetOrdersStart(u, RoleOf(u), query)))

ShowOrder ==
  /\ nreq < MaxViewRequests
  /\ \E u \in DOMAIN db.users, oid \in OrderIdInputs :
       Handle(Request(u, RoleOf(u), GetOrderStart(u, RoleOf(u), oid)))

ShowOrderStats ==
  /\ nreq < MaxViewRequests
  /\ \E u \in DOMAIN db.users :
       Handle(Request(u, RoleOf(u), GetOrderStatsStart(u, RoleOf(u))))

ShowProject ==
  /\ nreq < MaxViewRequests
  /\ \E u \in DOMAIN db.users, pj \in {1, 3} :
       Handle(Request(u, RoleOf(u), GetProjectStart(u, RoleOf(u), pj)))

NextView ==
  \/ OrderAs
  \/ ListOrders
  \/ ShowOrder
  \/ ShowOrderStats
  \/ ShowProject

SpecView == Init /\ [][NextView]_vars

(***************************************************************************)
(* Role specification: users of both roles send the managing requests and  *)
(* place orders, one request at a time.                                    *)
(***************************************************************************)
\* JSON bodies of PUT /projects/:id: no key, a status or a manager
ProjectBodies ==
  {[keys |-> {}, status |-> "", manager_id |-> 0],
   [keys |-> {"status"}, status |-> "completed", manager_id |-> 0],
   [keys |-> {"manager_id"}, status |-> "", manager_id |-> AgencyId]}

\* a managing request of the products routes
ProductRequests ==
  {PostProductStart("GATE-001", 1, 0), DeleteProductStart(2)}
  \cup {PutProductStart(1, [NoBody EXCEPT !.keys = {"status"}, !.status = "inactive"])}
  \cup {PatchStockStart(1, 1, type) : type \in StockTypes}

\* a managing request of the projects routes
ProjectRequests ==
  {PostProjectStart("planning", 0), DeleteProjectStart(2)}
  \cup {PutProjectStart(1, body) : body \in ProjectBodies}

\* a managing request of the users routes
UserRequests ==
  {DeleteUserStart(AgencyId)}
  \cup {PutUserStart(AgencyId, body) : body \in UserBodies}

ManageProducts ==
  /\ nreq < MaxViewRequests
  /\ \E u \in DOMAIN db.users, p0 \in ProductRequests : Handle(Request(u, RoleOf(u), p0))

ManageProjects ==
  /\ nreq < MaxViewRequests
  /\ \E u \in DOMAIN db.users, p0 \in ProjectRequests : Handle(Request(u, RoleOf(u), p0))

ManageUsers ==
  /\ nreq < MaxViewRequests
  /\ \E u \in DOMAIN db.users, p0 \in UserRequests : Handle(Request(u, RoleOf(u), p0))

ManageOrderStatus ==
  /\ nreq < MaxViewRequests
  /\ \E u \in DOMAIN db.users, oid \in OrderIdInputs, status \in {"approved", "cancelled"} :
       Handle(Request(u, RoleOf(u), PatchStatusStart(oid, status)))

NextRoles ==
  \/ OrderAs
  \/ ManageProducts
  \/ ManageProjects
  \/ ManageUsers
  \/ ManageOrderStatus

SpecRoles == Init /\ [][NextRoles]_vars

(***************************************************************************)
(* Pagination specification: orders are placed while the clock advances,   *)
(* and pages of GET /orders are read, one request at a time.               *)
(***************************************************************************)
\* orders placed in a behaviour of the pagination specification
MaxPageOrders == 3
\* seconds the clock advances
MaxNow == 1
\* largest page a query names
MaxPage == 3
\* largest limit a query names (the route allows 1..100)
MaxLimit == 2

\* query strings of GET /orders with and without page and limit
PageQueries ==
  {[NoQuery EXCEPT !.page = p, !.limit = l] : p \in 0..MaxPage, l \in 0..MaxLimit}

\* a read request handled alone, from its first statement to its response;
\* reads are not counted
Read(p0) ==
  LET r == Run(db, p0) IN
  /\ db' = r.db
  /\ last' = [req |-> p0, res |-> r.p, pre |-> db]
  /\ UNCHANGED <<procs, nreq, ui>>

\* a second passes
Tick ==
  /\ db.now < MaxNow
  /\ db' = [db EXCEPT !.now = @ + 1]
  /\ UNCHANGED <<procs, last, nreq, ui>>

OrderNow ==
  /\ nreq < MaxPageOrders
  /\ \E u \in DOMAIN db.users :
       Handle(Request(u, RoleOf(u),
              PostOrderStart(u, 0, <<[product_id |-> 1 + (Len(db.orders) % 2),
                                      quantity |-> 1]>>)))

ListPage ==
  \E u \in DOMAIN db.users, query \in PageQueries :
       Read(Request(u, RoleOf(u), GetOrdersStart(u, RoleOf(u), query)))

NextPages ==
  \/ Tick
  \/ OrderNow
  \/ ListPage

SpecPages == Init /\ [][NextPages]_vars

(***************************************************************************)
(* Session specification: logins, requests of the dashboards and logouts   *)
(* of the frontend.                                                        *)
(***************************************************************************)
\* successful logins in a behaviour
MaxLogins == 2
\* handlers waiting for a response at one time
MaxPending == 2

\* handleAdminLogin, handleAgencyLogin: the login form posts the credentials
SubmitLogin ==
  /\ ui.user = "none"
  /\ Len(ui.pending) < MaxPending
  /\ \E role \in {"admin", "agency"} :
       ui' = [ui EXCEPT !.pending = Append(@, [kind |-> "login", role |-> role,
                                               token |-> NoToken])]
  /\ UNCHANGED <<db, procs, last, nreq>>

\* the login response arrives: res.ok with a token, or an error
LoginResponse ==
  /\ \E k \in 1..Len(ui.pending) :
       /\ ui.pending[k].kind = "login"
       /\ \/ /\ ui.logins < MaxLogins
             /\ ui' = [ui EXCEPT !.stored = ui.logins + 1, !.token = ui.logins + 1,
                                 !.user = ui.pending[k].role, !.logins = @ + 1,
                                 !.loggedOut = FALSE, !.sentWithToken = FALSE,
                                 !.pending = Settled(@, k)]
          \/ ui' = [ui EXCEPT !.pending = Settled(@, k)]
  /\ UNCHANGED <<db, procs, last, nreq>>

\* a handler of a dashboard component sends its first request: managing
\* requests of the admin components, POST /orders of the cart
SendRequest ==
  /\ ui.user # "none"
  /\ Len(ui.pending) < MaxPending
  /\ ui' = [ApiFetch(ui, ui.token) EXCEPT
              !.pending = Append(@, [kind |-> IF ui.user = "admin" THEN "manage" ELSE "order",
                                     role |-> ui.user, token |-> ui.token])]
  /\ UNCHANGED <<db, procs, last, nreq>>

\* the response of a managing request arrives: when it is ok the handler
\* calls fetchProducts()
ManageResponse ==
  /\ \E k \in 1..Len(ui.pending) :
       /\ ui.pending[k].kind = "manage"
       /\ \/ ui' = ContinueWithFetch(ui, k)
          \/ ui' = [ui EXCEPT !.pending = Settled(@, k)]
  /\ UNCHANGED <<db, procs, last, nreq>>

\* the response of a list request or of POST /orders arrives: no further request
LastResponse ==
  /\ \E k \in 1..Len(ui.pending) :
       /\ ui.pending[k].kind \in {"fetch", "order"}
       /\ ui' = [ui EXCEPT !.pending = Settled(@, k)]
  /\ UNCHANGED <<db, procs, last, nreq>>

\* handleLogout: setUser(null), then logout() of AuthProvider
Logout ==
  /\ ui.user # "none"
  /\ ui' = [ui EXCEPT !.user = "none", !.stored = NoToken, !.token = NoToken,
                      !.loggedOut = TRUE]
  /\ UNCHANGED <<db, procs, last, nreq>>

NextSession ==
  \/ SubmitLogin
  \/ LoginResponse
  \/ SendRequest
  \/ ManageResponse
  \/ LastResponse
  \/ Logout

SpecSession == Init /\ [][NextSession]_vars

(***************************************************************************)
(* Price specification: orders are placed and product prices changed, one  *)
(* request at a time.                                                      *)
(***************************************************************************)
\* prices a PUT /products/:id names: isFloat({ min: 0 })
PriceInputs == {0, 100, FencePrice}

PriceOrder ==
  /\ nreq < MaxRequests
  /\ \E items \in ItemLists({1, 2}) : Handle(PostOrderStart(AgencyId, 0, items))

ChangePrice ==
  /\ nreq < MaxRequests
  /\ \E pid \in {1, 2}, price \in PriceInputs :
       Handle(PutProductStart(pid, [NoBody EXCEPT !.keys = {"price"}, !.price = price]))

NextPrice ==
  \/ PriceOrder
  \/ ChangePrice

SpecPrice == Init /\ [][NextPrice]_vars

(***************************************************************************)
(* Status specification: orders are placed and their status is updated,    *)
(* one request at a time.                                                  *)
(***************************************************************************)
\* requests handled in a behaviour of the status specification
MaxStatusRequests == 3
\* orders placed in a behaviour of the status specification
MaxStatusOrders == 1

\* item lists of one line, of two products, and of one product twice
StatusItemLists ==
  {<<[product_id |-> 1, quantity |-> q]>> : q \in 1..MaxQty}
  \cup {<<[product_id |-> 1, quantity |-> q], [product_id |-> pid, quantity |-> r]>> :
          q \in 1..MaxQty, r \in 1..MaxQty, pid \in {1, 2}}

StatusOrder ==
  /\ nreq < MaxStatusRequests
  /\ Len(db.orders) < MaxStatusOrders
  /\ \E items \in StatusItemLists : Handle(PostOrderStart(AgencyId, 0, items))

ChangeStatus ==
  /\ nreq < MaxStatusRequests
  /\ \E oid \in OrderIdInputs, status \in OrderStatuses :
       Handle(PatchStatusStart(oid, status))

NextStatus ==
  \/ StatusOrder
  \/ ChangeStatus

SpecStatus == Init /\ [][NextStatus]_vars

(***************************************************************************)
(* Stock specification: manual stock updates whose quantity is a JSON       *)
(* number or a string of digits, one request at a time.                    *)
(***************************************************************************)
StockNumber ==
  /\ nreq < MaxRequests
  /\ \E pid \in ProductIdInputs, q \in StockQtyInputs, type \in StockTypes :
       Handle(PatchStockStart(pid, q, type))

StockText ==
  /\ nreq < MaxRequests
  /\ \E pid \in ProductIdInputs, q \in 0..MaxQty, type \in StockTypes :
       Handle(PatchStockText(pid, q, type))

NextStock ==
  \/ StockNumber
  \/ StockText

SpecStock == Init /\ [][NextStock]_vars

(***************************************************************************)
(* Cart specification: the agency dashboard (UserDashboard) with its cart, *)
(* the catalogue's add-to-cart, the cart's controls and handleCheckout,    *)
(* whose POST /orders the backend answers.  A handler is a closure of the  *)
(* render that created it: handleCheckout and the removeFromCart it calls  *)
(* hold the cartItems of the render in which Place Order was clicked.      *)
(***************************************************************************)
\* UserDashboard and ShoppingCartComponent after mounting: useState([]),
\* useState("catalog"), useState(""), useState(false); toast is the last toast
UserDashboardMounted ==
  [cartItems |-> <<>>, activeTab |-> "catalog", shippingAddress |-> "",
   isProcessing |-> FALSE, closure |-> <<>>, code |-> 0, toast |-> "none"]

\* cartItems.filter(item => item.id !== productId)
RECURSIVE FilterOut(_, _)
FilterOut(cartItems, productId) ==
  IF cartItems = <<>> THEN <<>>
  ELSE (IF Head(cartItems).id # productId THEN <<Head(cartItems)>> ELSE <<>>)
       \o FilterOut(Tail(cartItems), productId)

\* cartItems.find(item => item.id === product.id) finds an item
InCart(cartItems, productId) ==
  \E k \in 1..Len(cartItems) : cartItems[k].id = productId

\* cartItems.map(item => item.id === productId ? { ...item, quantity } : item)
WithQuantity(cartItems, productId, quantity) ==
  [k \in 1..Len(cartItems) |->
     IF cartItems[k].id = productId THEN [cartItems[k] EXCEPT !.quantity = quantity]
     ELSE cartItems[k]]

\* the state that addToCart of a render with cartItems sets
addToCart(cartItems, productId, quantity) ==
  IF InCart(cartItems, productId)
  THEN [k \in 1..Len(cartItems) |->
          IF cartItems[k].id = productId
          THEN [cartItems[k] EXCEPT !.quantity = @ + quantity]
          ELSE cartItems[k]]
  ELSE Append(cartItems, [id |-> productId, quantity |-> quantity])

\* a removeFromCart that removes from the state it is given (the functional
\* update setCartItems(prev => prev.filter(...)))
removeFromLatest(cartItems, latest, productId) == FilterOut(latest, productId)

\* the state that removeFromCart of a render with cartItems sets when the
\* state is latest: setCartItems(cartItems.filter(...)) does not read latest
removeFromCart(cartItems, latest, productId) == FilterOut(cartItems, productId)

\* updateCartQuantity and handleQuantityChange of a render with cartItems
updateCartQuantity(cartItems, productId, quantity) ==
  IF quantity <= 0 THEN removeFromCart(cartItems, cartItems, productId)
  ELSE WithQuantity(cartItems, productId, quantity)

RECURSIVE ForEachRemove(_, _, _)
\* cartItems.forEach(item => onRemoveFromCart(item.id)) from the k-th item on:
\* every call sets the state, the later call after the earlier one
ForEachRemove(cartItems, latest, k) ==
  IF k > Len(cartItems) THEN latest
  ELSE ForEachRemove(cartItems, removeFromCart(cartItems, latest, cartItems[k].id), k + 1)

\* orderData.items of handleCheckout as the JSON body of POST /orders
OrderData(cartItems) ==
  [items_type |-> "array",
   items |-> [k \in 1..Len(cartItems) |->
                [product_id |-> JsonInt(cartItems[k].id),
                 quantity |-> JsonInt(cartItems[k].quantity)]]]

InitCart ==
  /\ db = SeedDb
  /\ procs = [s \in {1, 2} |-> Idle]
  /\ last = [req |-> Idle, res |-> Idle, pre |-> SeedDb]
  /\ nreq = 0
  /\ ui = UserDashboardMounted

\* handleAddToCart of the catalogue, which lists the active products in stock
AddToCart ==
  /\ \E productId \in DOMAIN db.products, quantity \in 1..MaxQty :
       /\ db.products[productId].status = "active"
       /\ db.products[productId].stock_quantity > 0
       /\ quantity <= db.products[productId].stock_quantity
       /\ \A k \in 1..Len(ui.cartItems) :
            ui.cartItems[k].id = productId => ui.cartItems[k].quantity + quantity <= MaxQty
       /\ ui' = [ui EXCEPT !.cartItems = addToCart(@, productId, quantity),
                           !.toast = "added"]
  /\ UNCHANGED <<db, procs, last, nreq>>

\* the quantity input of a cart line: handleQuantityChange
ChangeQuantity ==
  /\ \E k \in 1..Len(ui.cartItems), quantity \in 0..MaxQty :
       ui' = [ui EXCEPT !.cartItems = updateCartQuantity(@, ui.cartItems[k].id, quantity)]
  /\ UNCHANGED <<db, procs, last, nreq>>

\* the trash button of a cart line: onRemoveFromCart
RemoveLine ==
  /\ \E k \in 1..Len(ui.cartItems) :
       ui' = [ui EXCEPT !.cartItems = removeFromCart(@, @, ui.cartItems[k].id)]
  /\ UNCHANGED <<db, procs, last, nreq>>

\* the shipping address is typed or erased
TypeAddress ==
  /\ \E text \in {"", "Base 7"} :
       /\ text # ui.shippingAddress
       /\ ui' = [ui EXCEPT !.shippingAddress = text]
  /\ UNCHANGED <<db, procs, last, nreq>>

\* Place Order (disabled while isProcessing or without an address): the
\* handler of this render posts the order, which the backend handles
Checkout ==
  /\ nreq < MaxRequests
  /\ ~ ui.isProcessing
  /\ ui.shippingAddress # ""
  /\ ui.cartItems # <<>>
  /\ LET p0 == PostOrderRequest(AgencyId, 0, OrderData(ui.cartItems))
         r == Run(db, p0) IN
       /\ db' = r.db
       /\ last' = [req |-> p0, res |-> r.p, pre |-> db]
       /\ nreq' = nreq + 1
       /\ ui' = [ui EXCEPT !.isProcessing = TRUE, !.closure = ui.cartItems,
                           !.code = r.p.code]
  /\ UNCHANGED procs

\* the response arrives.  response.ok: the handler removes its items, clears
\* the address and has the dashboard show the order history; otherwise it
\* shows the error
CheckoutResponse ==
  /\ ui.isProcessing
  /\ ui' = IF ui.code = 201
           THEN [ui EXCEPT !.cartItems = ForEachRemove(ui.closure, @, 1),
                           !.shippingAddress = "", !.activeTab = "orders",
                           !.toast = "submitted", !.isProcessing = FALSE,
                           !.closure = <<>>, !.code = 0]
           ELSE [ui EXCEPT !.toast = "failed", !.isProcessing = FALSE,
                           !.closure = <<>>, !.code = 0]
  /\ UNCHANGED <<db, procs, last, nreq>>

\* apiFetch rejects: the catch block
CheckoutNetworkError ==
  /\ ui.isProcessing
  /\ ui' = [ui EXCEPT !.toast = "network", !.isProcessing = FALSE,
                      !.closure = <<>>, !.code = 0]
  /\ UNCHANGED <<db, procs, last, nreq>>

NextCart ==
  \/ AddToCart
  \/ ChangeQuantity
  \/ RemoveLine
  \/ TypeAddress
  \/ Checkout
  \/ CheckoutResponse
  \/ CheckoutNetworkError

SpecCart == InitCart /\ [][NextCart]_vars

(***************************************************************************)
(* Cancellation specification: one order is placed, then PATCH             *)
(* /orders/:id/status requests on it run in two slots, one after the other *)
(* or with their awaited statements interleaved.                           *)
(***************************************************************************)
\* status updates started in a behaviour
MaxCancelRequests == 3

\* item lists that name each product once
CancelItemLists ==
  {<<[product_id |-> 1, quantity |-> q]>> : q \in 1..MaxQty}
  \cup {<<[product_id |-> 1, quantity |-> q], [product_id |-> 2, quantity |-> r]>> :
          q \in 1..MaxQty, r \in 1..MaxQty}

\* the statuses the requests name: back to pending, or cancelled
CancelStatuses == {"pending", "cancelled"}

CancelOrder ==
  /\ db.orders = <<>>
  /\ \E items \in CancelItemLists : Handle(PostOrderStart(AgencyId, 0, items))

\* a status update on an existing order arrives in a free slot
StartStatus(s) ==
  /\ ~ Running(procs[s])
  /\ nreq <= MaxCancelRequests
  /\ \E oid \in 1..Len(db.orders), status \in CancelStatuses :
       procs' = [procs EXCEPT ![s] = PatchStatusStart(oid, status)]
  /\ nreq' = nreq + 1
  /\ UNCHANGED <<db, last, ui>>

NextCancel ==
  \/ CancelOrder
  \/ \E s \in Slots :
       \/ StartStatus(s)
       \/ StepSlot(s)

SpecCancel == Init /\ [][NextCancel]_vars

(***************************************************************************)
(* Administration specification: DELETE /users/:id and PUT /users/:id      *)
(* requests in two slots, one after the other or with their awaited        *)
(* statements interleaved.                                                 *)
(***************************************************************************)
\* user requests started in a behaviour
MaxUserRequests == 3

\* a DELETE /users/:id arrives in a free slot
StartDeleteUser(s) ==
  /\ ~ Running(procs[s])
  /\ nreq < MaxUserRequests
  /\ \E u \in UserIdInputs : procs' = [procs EXCEPT ![s] = DeleteUserStart(u)]
  /\ nreq' = nreq + 1
  /\ UNCHANGED <<db, last, ui>>

\* a PUT /users/:id arrives in a free slot
StartPutUser(s) ==
  /\ ~ Running(procs[s])
  /\ nreq < MaxUserRequests
  /\ \E u \in UserIdInputs, body \in UserBodies :
       procs' = [procs EXCEPT ![s] = PutUserStart(u, body)]
  /\ nreq' = nreq + 1
  /\ UNCHANGED <<db, last, ui>>

NextAdmins ==
  \E s \in Slots :
    \/ StartDeleteUser(s)
    \/ StartPutUser(s)
    \/ StepSlot(s)

SpecAdmins == Init /\ [][NextAdmins]_vars

(***************************************************************************)
(* Claims about the inventory, checked under Spec.                         *)
(***************************************************************************)
Stock(d, pid) == d.products[pid].stock_quantity

\* the last request was a POST /orders answered 201
OrderCreated == last.req.op = "postOrder" /\ last.res.code = 201

\* C1: in every reachable state every product's stock_quantity is >= 0.
StockNonNegative ==
  \A pid \in DOMAIN db.products : Stock(db, pid) >= 0

\* C2: after a successful POST /orders handled alone, every product's stock is
\* its stock before the request minus the sum of the quantities of the order's
\* lines that name it (so the stock of products not in the order is unchanged).
OrderDecrementsStock ==
  OrderCreated =>
    \A pid \in DOMAIN last.pre.products :
      Stock(db, pid) = Stock(last.pre, pid) - SumQty(last.req.items, pid)

\* C3: creating an order and cancelling it in the very next request returns
\* every product's stock to its value before the order was created.
CancelRestoresStock ==
  [][ ( /\ OrderCreated
        /\ last'.req.op = "patchStatus"
        /\ last'.req.id = last.res.orderId
        /\ last'.req.status = "cancelled"
        /\ last'.res.code = 200 )
      => \A pid \in DOMAIN last.pre.products :
           Stock(db', pid) = Stock(last.pre, pid) ]_vars

\* a line that names a missing product, an inactive one, or more than the stock
LineInvalid(d, item) ==
  \/ item.product_id \notin DOMAIN d.products
  \/ d.products[item.product_id].status # "active"
  \/ d.products[item.product_id].stock_quantity < item.quantity

\* C4: a POST /orders with an invalid line is answered 400 and changes no
\* table, whatever the lines before it.
InvalidItemRejected ==
  ( /\ last.req.op = "postOrder"
    /\ \E k \in 1..Len(last.req.items) : LineInvalid(last.pre, last.req.items[k]) )
  => (last.res.code = 400 /\ db = last.pre)

\* C4's case: a valid first line, a second line that asks for more than the
\* stock, answered 400 after an earlier order took stock.
InvalidItemRejectedWitness ==
  /\ last.req.op = "postOrder"
  /\ Len(last.req.items) = 2
  /\ ~ LineInvalid(last.pre, last.req.items[1])
  /\ last.req.items[2].product_id \in DOMAIN last.pre.products
  /\ Stock(last.pre, last.req.items[2].product_id) < last.req.items[2].quantity
  /\ Len(last.pre.orders) = 1
  /\ last.res.code = 400
  /\ db = last.pre

(***************************************************************************)
(* Claims about concurrent order creation, checked under SpecConc.         *)
(***************************************************************************)
\* slot s holds a POST /orders answered 201 with exactly one line naming pid
OneLineOrder(s, pid) ==
  /\ procs[s].op = "postOrder"
  /\ procs[s].pc = "done"
  /\ procs[s].code = 201
  /\ Cardinality({k \in 1..Len(procs[s].items) : procs[s].items[k].product_id = pid}) = 1

\* both requests succeeded on pid and together ordered more than the seeded stock
Oversold(pid) ==
  /\ OneLineOrder(1, pid)
  /\ OneLineOrder(2, pid)
  /\ SumQty(procs[1].items, pid) + SumQty(procs[2].items, pid) > Stock(SeedDb, pid)

\* C5: when two interleaved POST /orders, each naming the product on one line,
\* both answer 201 although their quantities together exceed the stock that was
\* there before either began, the final stock is that stock minus the quantity
\* of one of the two requests only.
LostUpdate ==
  \A pid \in DOMAIN SeedDb.products :
    Oversold(pid) =>
      \/ Stock(db, pid) = Stock(SeedDb, pid) - SumQty(procs[1].items, pid)
      \/ Stock(db, pid) = Stock(SeedDb, pid) - SumQty(procs[2].items, pid)

\* C5's case: both requests answered 201 for product 1, more ordered than there
\* was, both orders and their lines recorded, one decrement lost.
LostUpdateWitness ==
  /\ Oversold(1)
  /\ Len(db.orders) = 2
  /\ SumQty(db.order_items, 1) > Stock(SeedDb, 1)
  /\ Stock(db, 1) > Stock(SeedDb, 1) - SumQty(db.order_items, 1)

\* the rows of a table written for order oid, as <<product_id, quantity>>
LinesOf(rows) == [k \in 1..Len(rows) |-> <<rows[k].product_id, rows[k].quantity>>]

\* the order of handler p is wholly applied: its order_items rows, its 'out'
\* ledger rows and the stock decrement of each of its lines
OrderApplied(p) ==
  /\ LinesOf(SelectOrderItems(db, p.orderId)) = LinesOf(p.validatedItems)
  /\ LinesOf(SelectSeq(db.inventory_transactions,
                       LAMBDA t : t.reference_type = "order"
                                  /\ t.reference_id = p.orderId
                                  /\ t.transaction_type = "out"))
       = LinesOf(p.validatedItems)
  /\ \A k \in 1..Len(p.validatedItems) :
       Stock(db, p.validatedItems[k].product_id)
         <= p.validatedItems[k].stock_quantity - p.validatedItems[k].quantity

\* C6: order creation is atomic: in every reachable state an order row exists
\* only together with all its order_items rows, stock decrements and 'out'
\* ledger rows.
OrderCreationAtomic ==
  \A s \in Slots :
    (procs[s].op = "postOrder" /\ procs[s].orderId # 0) => OrderApplied(procs[s])

\* C6 in the states a failed request leaves behind: no handler is running
OrderCreationAtomicAtRest ==
  (\A s \in Slots : ~ Running(procs[s])) => OrderCreationAtomic

(***************************************************************************)
(* Claims about the catalogue, checked under SpecSku and SpecCatalog.      *)
(***************************************************************************)
\* C7: no two product rows have the same sku (a NULL sku is no sku), in every
\* state reachable by sequences and interleavings of POST /products and
\* PUT /products/:id.
SkuUnique ==
  \A a, b \in DOMAIN db.products :
    (a # b /\ db.products[a].sku # NullSku) => db.products[a].sku # db.products[b].sku

\* C7's case: a POST /products passed its own SKU check, another request then
\* took the sku, and the INSERT was refused by the table's constraint.
SkuUniqueWitness ==
  \E s \in Slots :
    /\ procs[s].op = "postProduct"
    /\ procs[s].pc = "done"
    /\ procs[s].code = 500
    /\ \E q \in DOMAIN db.products : db.products[q].sku = procs[s].sku

\* the last request would give a product an sku that another product holds
DuplicateSkuRequest ==
  \/ /\ last.req.op = "postProduct"
     /\ \E q \in DOMAIN last.pre.products : last.pre.products[q].sku = last.req.sku
  \/ /\ last.req.op = "putProduct"
     /\ "sku" \in last.req.body.keys
     /\ last.req.body.sku # NullSku
     /\ last.req.id \in DOMAIN last.pre.products
     /\ \E q \in DOMAIN last.pre.products \ {last.req.id} :
          last.pre.products[q].sku = last.req.body.sku

\* C8: a request that would give a product an sku held by another product is
\* answered 400 and leaves the products table unchanged.
DuplicateSkuIs400 ==
  DuplicateSkuRequest => (last.res.code = 400 /\ db.products = last.pre.products)

(***************************************************************************)
(* Claims about deletion, checked under SpecDelete.                        *)
(***************************************************************************)
Admins(d) == {u \in DOMAIN d.users : d.users[u].role = "admin"}

\* the last request is a DELETE of the given kind on a row that exists
Deleting(op, rows) == last.req.op = op /\ last.req.id \in rows

\* C9: DELETE /users/:id on an admin while one admin exists is answered 400 and
\* leaves the users table unchanged; no user deletion takes the number of
\* admins from one or more to none.
AdminFloor ==
  last.req.op = "deleteUser" =>
    /\ ( /\ last.req.id \in Admins(last.pre)
         /\ Cardinality(Admins(last.pre)) = 1 )
       => (last.res.code = 400 /\ db.users = last.pre.users)
    /\ Cardinality(Admins(last.pre)) >= 1 => Cardinality(Admins(db)) >= 1

\* C9's case: after another admin was made and the first one deleted, the
\* DELETE of the remaining admin, who has no orders, is answered 400.
AdminFloorWitness ==
  /\ last.req.op = "deleteUser"
  /\ last.req.id \in Admins(last.pre)
  /\ Cardinality(Admins(last.pre)) = 1
  /\ AdminId \notin DOMAIN last.pre.users
  /\ last.pre.orders = <<>>
  /\ last.res.code = 400
  /\ db = last.pre

\* the row the last DELETE names is referenced: a product by an order_items
\* row, a project or a user by an order
Referenced ==
  \/ /\ last.req.op = "deleteProduct"
     /\ \E k \in 1..Len(last.pre.order_items) :
          last.pre.order_items[k].product_id = last.req.id
  \/ /\ last.req.op = "deleteProject"
     /\ \E o \in DOMAIN last.pre.orders : last.pre.orders[o].project_id = last.req.id
  \/ /\ last.req.op = "deleteUser"
     /\ \E o \in DOMAIN last.pre.orders : last.pre.orders[o].user_id = last.req.id

\* the last DELETE names a row that exists
DeletingRow ==
  \/ Deleting("deleteProduct", DOMAIN last.pre.products)
  \/ Deleting("deleteProject", DOMAIN last.pre.projects)
  \/ Deleting("deleteUser", DOMAIN last.pre.users)

Without(f, x) == [y \in DOMAIN f \ {x} |-> f[y]]

\* the database before the last DELETE with exactly the named row removed
RowRemoved ==
  CASE last.req.op = "deleteProduct" ->
         [last.pre EXCEPT !.products = Without(@, last.req.id)]
    [] last.req.op = "deleteProject" ->
         [last.pre EXCEPT !.projects = Without(@, last.req.id)]
    [] last.req.op = "deleteUser" ->
         [last.pre EXCEPT !.users = Without(@, last.req.id)]

\* the last DELETE names the only admin
DeletingLastAdmin ==
  /\ last.req.op = "deleteUser"
  /\ last.req.id \in Admins(last.pre)
  /\ Cardinality(Admins(last.pre)) <= 1

\* C10 as claimed: a DELETE of a referenced row is answered 400 and deletes
\* nothing; a DELETE of an existing row without such a reference removes
\* exactly that row.
DeleteReferencedRejected ==
  DeletingRow =>
    IF Referenced THEN last.res.code = 400 /\ db = last.pre
    ELSE last.res.code = 200 /\ db = RowRemoved

\* C10 as amended: the same, except that the DELETE of the only admin is
\* answered 400 and deletes nothing although no order references the user.
DeleteReferencedRejectedUnlessLastAdmin ==
  DeletingRow =>
    IF Referenced \/ DeletingLastAdmin THEN last.res.code = 400 /\ db = last.pre
    ELSE last.res.code = 200 /\ db = RowRemoved

\* C10's case: a product that an order line names is not deleted, after
\* another row was deleted.
DeleteReferencedWitness ==
  /\ Deleting("deleteProduct", DOMAIN last.pre.products)
  /\ Referenced
  /\ last.res.code = 400
  /\ db = last.pre
  /\ Cardinality(DOMAIN db.products) + Cardinality(DOMAIN db.projects)
       + Cardinality(DOMAIN db.users) < 6

(***************************************************************************)
(* Claims about request validation, checked under SpecValidate.            *)
(***************************************************************************)
\* items is missing, not an array or empty, or some line has a product_id that
\* is no integer or a quantity that is no integer >= 1
Malformed(body) ==
  \/ body.items_type # "array"
  \/ Len(body.items) = 0
  \/ \E k \in 1..Len(body.items) :
       \/ ~ body.items[k].product_id.int
       \/ ~ body.items[k].quantity.int
       \/ body.items[k].quantity.n < 1

ViewOps == {"getOrders", "getOrder", "getOrderStats", "getProject"}

\* the last request was made by an agency user and read orders
AgencyView == last.req.op \in ViewOps /\ last.req.requester_role = "agency"

\* C12: no response to a GET /orders, GET /orders/:id, GET
\* /orders/stats/overview or GET /projects/:id made by an agency user contains
\* or counts an order of another user, and GET /orders/:id for another user's
\* order is answered 403.
AgencySeesOwnOrders ==
  AgencyView =>
    /\ \A k \in 1..Len(last.res.shown) :
         last.pre.orders[last.res.shown[k]].user_id = last.req.requester
    /\ (/\ last.req.op = "getOrder"
        /\ last.req.id \in DOMAIN last.pre.orders
        /\ last.pre.orders[last.req.id].user_id # last.req.requester)
         => last.res.code = 403

\* the same for the three routes of routes/orders.js alone
AgencySeesOwnOrdersInOrderRoutes ==
  (AgencyView /\ last.req.op # "getProject") => AgencySeesOwnOrders


\* the requests that manage products, projects, users and order status
ManageOps ==
  {"postProduct", "putProduct", "deleteProduct", "patchStock", "postProject",
   "putProject", "deleteProject", "putUser", "deleteUser", "patchStatus"}

\* some product's stock_quantity differs before and after the last request
StockChanged ==
  \E pid \in DOMAIN db.products \cap DOMAIN last.pre.products :
    Stock(db, pid) # Stock(last.pre, pid)

\* C13: a managing request (POST/PUT/DELETE /products, PATCH
\* /products/:id/stock, POST/PUT/DELETE /projects, PUT/DELETE /users, PATCH
\* /orders/:id/status) made with role agency changes no row of any table, and
\* an agency request changes a product's stock only as a POST /orders answered
\* 201.
OnlyAdminsManage ==
  (last.req.op # "none" /\ last.req.requester_role = "agency") =>
    /\ last.req.op \in ManageOps => db = last.pre
    /\ StockChanged => (last.req.op = "postOrder" /\ last.res.code = 201)

\* an agency user's manual stock update changed nothing, after the admin had
\* changed the same product's stock
OnlyAdminsManageWitness ==
  /\ last.req.op = "patchStock"
  /\ last.req.requester_role = "agency"
  /\ last.res.code = 403
  /\ db = last.pre
  /\ Stock(db, 1) # InitStock
  /\ db.inventory_transactions # <<>>

(***************************************************************************)
(* Claims about pagination, checked under SpecPages.                       *)
(***************************************************************************)
\* the filtered rows of a GET /orders in database d
Filtered(d, user, role, query) ==
  {oid \in DOMAIN d.orders : WhereOrders(d, oid, user, role, query)}

\* rows lists every id of ids once, newest created_at first
SortedByCreatedAtDesc(d, rows, ids) ==
  /\ Len(rows) = Cardinality(ids)
  /\ {rows[k] : k \in 1..Len(rows)} = ids
  /\ \A k \in 1..(Len(rows) - 1) :
       d.orders[rows[k]].created_at >= d.orders[rows[k + 1]].created_at

\* the rows at the 0-based positions (p-1)*l .. p*l-1 of rows
PageRows(rows, p, l) ==
  [k \in 1..(IF Len(rows) - (p - 1) * l <= 0 THEN 0
             ELSE IF Len(rows) - (p - 1) * l < l THEN Len(rows) - (p - 1) * l
             ELSE l) |-> rows[(p - 1) * l + k]]

\* the least n with n * l >= total
Ceil(total, l) == CHOOSE n \in 0..total : n * l >= total /\ (n = 0 \/ (n - 1) * l < total)

\* the response of GET /orders to user u for query, handled alone on db
PageResponse(u, query) == Run(db, GetOrdersStart(u, db.users[u].role, query)).p

RECURSIVE ConcatPages(_, _, _, _)
\* the rows of the pages from..pages of a query, one after the other
ConcatPages(u, query, from, pages) ==
  IF from > pages THEN <<>>
  ELSE PageResponse(u, [query EXCEPT !.page = from]).shown
       \o ConcatPages(u, query, from + 1, pages)

\* the last GET /orders held exactly the rows of its page, the number of
\* filtered rows and the number of pages
PageHoldsItsRows ==
  (last.req.op = "getOrders" /\ last.res.code = 200) =>
    LET q == last.req.query
        ids == Filtered(last.pre, last.req.requester, last.req.requester_role, q)
        rows == OrderByCreatedAtDesc(last.pre, ids)
    IN  /\ SortedByCreatedAtDesc(last.pre, rows, ids)
        /\ last.res.shown = PageRows(rows, PageOf(q), LimitOf(q))
        /\ last.res.total = Cardinality(ids)
        /\ last.res.pages = Ceil(Cardinality(ids), LimitOf(q))

\* on the database as it is, the pages 1..pages of every query hold every
\* filtered row exactly once
PagesPartition ==
  \A u \in DOMAIN db.users, query \in PageQueries :
    LET ids == Filtered(db, u, db.users[u].role, query)
        all == ConcatPages(u, query, 1, PageResponse(u, query).pages)
    IN  /\ Len(all) = Cardinality(ids)
        /\ {all[k] : k \in 1..Len(all)} = ids

\* C14: a GET /orders for page p >= 1 and limit l holds exactly the rows at
\* the 0-based positions (p-1)*l .. p*l-1 of the filtered orders sorted by
\* created_at descending, total is the number of filtered rows and pages is
\* ceil(total / l); on an unmodified table the pages 1..pages concatenated hold
\* every filtered row exactly once.
PaginationCorrect == PageHoldsItsRows /\ PagesPartition

\* the second page of limit 1 held one of three rows, two of them of one second
PaginationCorrectWitness ==
  /\ last.req.op = "getOrders"
  /\ last.req.query.page = 2
  /\ last.req.query.limit = 1
  /\ last.res.total = 3
  /\ last.res.pages = 3
  /\ Len(last.res.shown) = 1
  /\ \E a, b \in DOMAIN db.orders :
       a # b /\ db.orders[a].created_at = db.orders[b].created_at
  /\ \E a, b \in DOMAIN db.orders : db.orders[a].created_at # db.orders[b].created_at

(***************************************************************************)
(* Claims about the frontend session, checked under SpecSession.           *)
(***************************************************************************)
\* after handleLogout and before the next successful login the page's user is
\* null, the AuthContext token is null and localStorage holds no token
SessionCleared ==
  ui.loggedOut =>
    /\ ui.user = "none"
    /\ ui.token = NoToken
    /\ ui.stored = NoToken

\* C15: after handleLogout the page's user state is null, the AuthContext
\* token is null and localStorage holds no token, and no request sent through
\* apiFetch carries an Authorization header until the next successful login.
LogoutClearsSession ==
  /\ SessionCleared
  /\ ui.loggedOut => ~ ui.sentWithToken

(***************************************************************************)
(* Claims about the rows an order writes, checked under Spec and           *)
(* SpecStatus.                                                             *)
(***************************************************************************)
\* rows is old followed by n more rows
Extends(rows, old, n) ==
  /\ Len(rows) = Len(old) + n
  /\ SubSeq(rows, 1, Len(old)) = old

\* C16: a POST /orders answered 201 inserted exactly one orders row, with
\* status pending and the requester's user_id, one order_items row per line
\* with the line's product_id and quantity, and one inventory_transactions row
\* per line with type out, reference_type order, the new order's id and the
\* line's product_id and quantity.
OrderRecordedWhole ==
  OrderCreated =>
    LET items == last.req.items
        oid == Len(last.pre.orders) + 1
        ni == Len(last.pre.order_items)
        nt == Len(last.pre.inventory_transactions)
    IN  /\ Extends(db.orders, last.pre.orders, 1)
        /\ db.orders[oid].status = "pending"
        /\ db.orders[oid].user_id = last.req.user
        /\ last.res.orderId = oid
        /\ Extends(db.order_items, last.pre.order_items, Len(items))
        /\ Extends(db.inventory_transactions, last.pre.inventory_transactions, Len(items))
        /\ \A k \in 1..Len(items) :
             /\ db.order_items[ni + k].order_id = oid
             /\ db.order_items[ni + k].product_id = items[k].product_id
             /\ db.order_items[ni + k].quantity = items[k].quantity
             /\ db.inventory_transactions[nt + k] =
                  [product_id |-> items[k].product_id, transaction_type |-> "out",
                   quantity |-> items[k].quantity, reference_type |-> "order",
                   reference_id |-> oid]

\* a second order, of two lines, was recorded
OrderRecordedWholeWitness ==
  /\ OrderCreated
  /\ Len(last.req.items) = 2
  /\ Len(last.pre.orders) = 1
  /\ Len(db.order_items) >= 3


\* the last request was a PATCH /orders/:id/status for an order that exists
StatusUpdate ==
  /\ last.req.op = "patchStatus"
  /\ last.req.id \in DOMAIN last.pre.orders

\* the last request moved an order from a non-cancelled status to cancelled
Cancelling ==
  /\ StatusUpdate
  /\ last.req.status = "cancelled"
  /\ last.pre.orders[last.req.id].status # "cancelled"

\* one 'in' ledger entry per order item of order oid
RestoreEntries(rows, oid) ==
  [k \in 1..Len(rows) |->
     [product_id |-> rows[k].product_id, transaction_type |-> "in",
      quantity |-> rows[k].quantity, reference_type |-> "order", reference_id |-> oid]]

\* C17: a PATCH /orders/:id/status to cancelled on an order that is already
\* cancelled changes no stock and inserts no ledger row; a status update
\* restores inventory only when it moves the order from a non-cancelled status
\* to cancelled, and then it adds every order item's quantity to its product's
\* stock and inserts one 'in' ledger entry per order item.
RecancelIsNoOp ==
  StatusUpdate =>
    IF Cancelling
      THEN LET rows == SelectOrderItems(last.pre, last.req.id) IN
           /\ \A pid \in DOMAIN last.pre.products :
                Stock(db, pid) = Stock(last.pre, pid) + SumQty(rows, pid)
           /\ db.inventory_transactions
                = last.pre.inventory_transactions \o RestoreEntries(rows, last.req.id)
      ELSE /\ db.products = last.pre.products
           /\ db.inventory_transactions = last.pre.inventory_transactions

\* a cancelled order of two lines was cancelled again
RecancelIsNoOpWitness ==
  /\ StatusUpdate
  /\ last.req.status = "cancelled"
  /\ last.pre.orders[last.req.id].status = "cancelled"
  /\ last.res.code = 200
  /\ Len(SelectOrderItems(db, last.req.id)) = 2
  /\ Len(db.inventory_transactions) = 4

\* C18: a PATCH /orders/:id/status to a status other than cancelled changes
\* only the order's status: every product, the order_items table and the
\* inventory_transactions table are as before; for an order id that does not
\* exist the answer is 404 and nothing changes.
StatusUpdateChangesOnlyStatus ==
  last.req.op = "patchStatus" =>
    /\ last.req.id \notin DOMAIN last.pre.orders
         => (last.res.code = 404 /\ db = last.pre)
    /\ (StatusUpdate /\ last.req.status # "cancelled")
         => /\ last.res.code = 200
            /\ db = [last.pre EXCEPT !.orders[last.req.id].status = last.req.status]

\* a cancelled order with rows was set to approved
StatusUpdateChangesOnlyStatusWitness ==
  /\ StatusUpdate
  /\ last.req.status = "approved"
  /\ last.pre.orders[last.req.id].status = "cancelled"
  /\ db.orders[last.req.id].status = "approved"
  /\ db.order_items # <<>>

(***************************************************************************)
(* Claims about order totals, checked under SpecConc and SpecPrice.        *)
(***************************************************************************)
RECURSIVE SumTotalPrice(_)
\* the sum of total_price over rows
SumTotalPrice(rows) ==
  IF rows = <<>> THEN 0 ELSE Head(rows).total_price + SumTotalPrice(Tail(rows))

\* C19: in every reachable state every order's total_amount is the sum of
\* total_price over its order_items rows, and every order_items row has
\* total_price = unit_price * quantity; the unit_price of a row is the
\* product's price when the order was created and stays what it is.
OrderTotalsConsistent ==
  \A oid \in DOMAIN db.orders :
    LET rows == SelectOrderItems(db, oid) IN
    /\ db.orders[oid].total_amount = SumTotalPrice(rows)
    /\ \A k \in 1..Len(rows) : rows[k].total_price = rows[k].unit_price * rows[k].quantity

\* the same in the states in which no request is being handled
OrderTotalsConsistentAtRest ==
  (\A s \in Slots : ~ Running(procs[s])) => OrderTotalsConsistent

\* requests handled one at a time: the rows of an order answered 201 carry the
\* price the product had before the request, and no request changes an
\* existing order's total_amount or rows
OrdersKeepTheirPrices ==
  /\ OrderCreated =>
       \A k \in (Len(last.pre.order_items) + 1)..Len(db.order_items) :
         db.order_items[k].unit_price = last.pre.products[db.order_items[k].product_id].price
  /\ \A oid \in DOMAIN last.pre.orders :
       /\ db.orders[oid].total_amount = last.pre.orders[oid].total_amount
       /\ SelectOrderItems(db, oid) = SelectOrderItems(last.pre, oid)

\* an order was placed after a product's price had been changed
OrdersKeepTheirPricesWitness ==
  /\ OrderCreated
  /\ \E pid \in {1, 2} : last.pre.products[pid].price # SeedDb.products[pid].price

(***************************************************************************)
(* Claims about manual stock updates, checked under SpecStock.             *)
(***************************************************************************)
\* the last request was a PATCH /products/:id/stock for a product that exists
StockUpdate ==
  /\ last.req.op = "patchStock"
  /\ last.req.id \in DOMAIN last.pre.products

\* what the claim says of the last manual stock update
StockUpdateAsClaimed ==
  LET old == Stock(last.pre, last.req.id)
      q == last.req.quantity
      type == last.req.type
  IN  IF type = "out" /\ q > old
        THEN /\ last.res.code = 400
             /\ db.products = last.pre.products
             /\ db.inventory_transactions = last.pre.inventory_transactions
        ELSE /\ Stock(db, last.req.id) =
                  (CASE type = "in" -> old + q
                     [] type = "out" -> old - q
                     [] type = "adjustment" -> q)
             /\ db.inventory_transactions =
                  Append(last.pre.inventory_transactions,
                         [product_id |-> last.req.id, transaction_type |-> type,
                          quantity |-> q, reference_type |-> "manual",
                          reference_id |-> 0])

\* C20: a PATCH /products/:id/stock on an existing product with quantity q
\* sets the stock to old + q for in, old - q for out and q for adjustment and
\* inserts one ledger row with that type, quantity q and reference_type
\* manual; an out with q greater than the stock is answered 400 and changes
\* neither the stock nor the ledger.
ManualStockUpdate == StockUpdate => StockUpdateAsClaimed

\* the same for the requests whose quantity is a JSON number
ManualStockUpdateOfNumbers ==
  (StockUpdate /\ ~ last.req.quoted) => StockUpdateAsClaimed

(***************************************************************************)
(* Claims about the cart, checked under SpecCart.                          *)
(***************************************************************************)
\* handleCheckout received an ok response and its state updates are applied
OrderSubmitted ==
  ui.isProcessing /\ ui.code = 201 /\ ui'.toast = "submitted" /\ ~ ui'.isProcessing

\* C21: when handleCheckout receives an ok response from POST /orders, the
\* cart of UserDashboard is empty once the state updates are applied, for a
\* cart of one, two or more distinct products
CartClearedAfterOrder == [][OrderSubmitted => ui'.cartItems = <<>>]_vars

\* the part of C21 that the code keeps: a cart of one product is empty after
\* the ok response
OneProductCartCleared ==
  [][(OrderSubmitted /\ Len(ui.closure) = 1) => ui'.cartItems = <<>>]_vars

\* what the code does: after the ok response the cart holds the items of the
\* ordering render without the last one
CartKeepsAllButLast ==
  [][OrderSubmitted =>
       ui'.cartItems = SubSeq(ui.closure, 1, Len(ui.closure) - 1)]_vars

(***************************************************************************)
(* Claims about the ledger and the restoring of stock, checked under       *)
(* SpecStatus and SpecCancel.                                              *)
(***************************************************************************)
RECURSIVE LedgerSum(_, _, _)
\* the sum of the quantities of the inventory_transactions rows of product
\* pid and of the given transaction_type
LedgerSum(rows, pid, type) ==
  IF rows = <<>> THEN 0
  ELSE (IF Head(rows).product_id = pid /\ Head(rows).transaction_type = type
        THEN Head(rows).quantity ELSE 0)
       + LedgerSum(Tail(rows), pid, type)

\* the stock of pid that the ledger of d accounts for
LedgerStock(d, pid) ==
  InitStock + LedgerSum(d.inventory_transactions, pid, "in")
            - LedgerSum(d.inventory_transactions, pid, "out")

\* C22: in every state reached by order creations and order status updates,
\* every product's stock_quantity is the initial stock plus the quantities of
\* its 'in' ledger rows minus the quantities of its 'out' ledger rows
LedgerReconciles ==
  \A pid \in DOMAIN db.products : Stock(db, pid) = LedgerStock(db, pid)

\* no order names a product in two of its lines
DistinctLines ==
  \A j, k \in 1..Len(db.order_items) :
    (j # k /\ db.order_items[j].order_id = db.order_items[k].order_id)
      => db.order_items[j].product_id # db.order_items[k].product_id

\* the part of C22 that the code keeps: the ledger reconciles while every
\* order names each product once
LedgerReconcilesForDistinctLines == DistinctLines => LedgerReconciles

\* an order of two products was placed and cancelled
LedgerReconcilesForDistinctLinesWitness ==
  /\ DistinctLines
  /\ Len(db.order_items) = 2
  /\ LedgerSum(db.inventory_transactions, 2, "in") > 0

\* the quantity of product pid that the creation of order oid deducted (every
\* order of SpecCancel names a product once)
Deducted(d, oid, pid) == SumQty(SelectOrderItems(d, oid), pid)

\* the quantity of product pid added back to the stock since the creation of
\* the only order
AddedBack(d, pid) == Stock(d, pid) - (InitStock - Deducted(d, 1, pid))

\* the stock added back for an order never exceeds what its creation deducted
NeverRestoredBeyondDeducted ==
  \A pid \in DOMAIN db.products :
    db.orders # <<>> => AddedBack(db, pid) <= Deducted(db, 1, pid)

\* an order that is not cancelled has its items deducted from the stock
OpenOrderStaysDeducted ==
  \A pid \in DOMAIN db.products :
    (db.orders # <<>> /\ db.orders[1].status # "cancelled") => AddedBack(db, pid) = 0

\* C23: over any sequence or interleaving of PATCH /orders/:id/status requests
\* on one order, the quantity added back to each product for the order never
\* exceeds the quantity its creation deducted, and an order whose status is
\* not 'cancelled' has its items still deducted from stock
RestoredAtMostOnce == NeverRestoredBeyondDeducted /\ OpenOrderStaysDeducted

(***************************************************************************)
(* Claims about the admins, checked under SpecAdmins.                      *)
(***************************************************************************)
\* C24: in every state reached by any sequence or interleaving of user
\* deletions and user updates, the users table holds at least one row with
\* role 'admin'
AdminAlwaysExists == Admins(db) # {}

\* the deletion half of C24: no DELETE takes the last admin's row away
NoDeletionRemovesLastAdmin ==
  [][(Admins(db) # {} /\ DOMAIN db'.users # DOMAIN db.users) => Admins(db') # {}]_vars

\* the update half of C24: no PUT takes the role of the last admin away
NoUpdateDemotesLastAdmin ==
  [][(Admins(db) # {} /\ DOMAIN db'.users = DOMAIN db.users) => Admins(db') # {}]_vars

====
